---- MODULE Spec2Model ----
(***************************************************************************)
(* A model of fairseq2's StandardTransformerDecoderLayer                   *)
(* (src/fairseq2/nn/transformer/decoder_layer.py) and of the NLLB          *)
(* checkpoint upgrade (src/fairseq2/models/nllb/loader.py).                *)
(*                                                                         *)
(* Tensors are symbolic: a tensor is a shape plus, for every position of   *)
(* its sequence axis, a term that records which operations produced the    *)
(* vector at that position.  Two tensors are equal exactly when the same   *)
(* operations were applied to the same inputs in the same order.           *)
(***************************************************************************)
EXTENDS Integers, Sequences, FiniteSets, TLC

VARIABLES
    layer,      \* the one layer instance: its fields, or the constructor's error
    ctor_args,  \* the arguments the constructor was called with
    pc,         \* per session: where its current forward call stands
    call,       \* per session: the arguments of its current forward call
    cur,        \* per session: the local variable x of forward
    trace,      \* per session: the sub-blocks the current call has run
    ret,        \* per session: what the last finished call returned
    bag,        \* per session: its IncrementalStateBag
    hist,       \* per session: the arguments of all its calls so far
    outs,       \* per session: the positions returned by its calls so far
    loaded,     \* loader: the state dict as it was read from the checkpoint
    ckpt,       \* loader: the state dict, parameter name -> tensor object
    heap,       \* loader: tensor object -> rows
    lpc         \* loader: position in _upgrade_checkpoint

vars == <<layer, ctor_args, pc, call, cur, trace, ret, bag, hist, outs,
          loaded, ckpt, heap, lpc>>

layerVars == <<layer, ctor_args>>
sessVars == <<pc, call, cur, trace, ret, bag, hist, outs>>
loaderVars == <<loaded, ckpt, heap, lpc>>

----------------------------------------------------------------------------
(* Bounds *)

\* length of the sequence a generation session decodes
MaxLen == 2

\* number of parameters of a checkpoint beside the embeddings
MaxKeys == 2

\* number of rows (vocabulary entries) of an embedding matrix
NumRows == 5

Sessions == {1, 2}
Dims == {2, 3}
SelfDims == {2}
BatchSizes == {2}
SrcLens == {3}
Seeds == {"r1", "r2"}

----------------------------------------------------------------------------
(* Symbolic tensors *)

T(op, tag, args) == <<op, tag, args>>

ZeroTerm == T("zero", "", <<>>)

\* None, where the code passes Optional[Tensor]
NoTensor == [shape |-> <<>>, pos |-> <<>>]

IsNone(t) == t.shape = <<>>

\* the result of an elementwise operation on shapes that do not broadcast
ShapeError == [shape |-> <<0>>, pos |-> <<>>]

Tensor(shape, pos) == [shape |-> shape, pos |-> pos]

\* position i..j of a session's input sequence, as a (S,M) or (N,S,M) tensor
InputChunk(s, from, n, batch, dim) ==
    Tensor((IF batch = 0 THEN <<>> ELSE <<batch>>) \o <<n, dim>>,
           [i \in 1..n |-> T("x", ToString(<<s, from + i - 1>>), <<>>)])

EncOut(n, batch, dim) ==
    Tensor((IF batch = 0 THEN <<>> ELSE <<batch>>) \o <<n, dim>>,
           [i \in 1..n |-> T("enc_out", ToString(i), <<>>)])

\* torch.nn.LayerNorm: normalizes every position over the model dimension
LayerNorm(name, x) ==
    Tensor(x.shape, [i \in 1..Len(x.pos) |-> T("norm", name, <<x.pos[i]>>)])

\* F.dropout(x, p, training): the identity outside training
dropout(x, p, training, seed) ==
    IF training
    THEN Tensor(x.shape, [i \in 1..Len(x.pos) |-> T("dropout", seed, <<x.pos[i]>>)])
    ELSE x

\* torch.mul(scale, residual), scale of shape (M,) broadcast over residual
MulTerm(scale, t) ==
    IF scale = "zeros" THEN ZeroTerm
    ELSE IF scale = "ones" THEN t
    ELSE T("mul", scale, <<t>>)

mul(scale, residual) ==
    Tensor(residual.shape,
           [i \in 1..Len(residual.pos) |-> MulTerm(scale, residual.pos[i])])

AddTerm(a, b) ==
    IF b = ZeroTerm THEN a
    ELSE IF a = ZeroTerm THEN b
    ELSE T("add", "", <<a, b>>)

\* x + residual
add(x, residual) ==
    IF x.shape # residual.shape THEN ShapeError
    ELSE Tensor(x.shape, [i \in 1..Len(x.pos) |-> AddTerm(x.pos[i], residual.pos[i])])

\* FeedForwardNetwork.forward: a position-wise, shape-preserving transform
FeedForwardNetwork(name, x) ==
    Tensor(x.shape, [i \in 1..Len(x.pos) |-> T("ffn", name, <<x.pos[i]>>)])

----------------------------------------------------------------------------
(* IncrementalStateBag and MultiheadAttention *)

AttnNames == {"self_attn", "enc_dec_attn"}

EmptyBag == [step |-> 0, cache |-> [n \in AttnNames |-> <<>>]]

\* state_bag = None
NoBag == [step |-> -1, cache |-> [n \in AttnNames |-> <<>>]]

HasBag(b) == b.step >= 0

KV(keys, values) == [j \in 1..Len(keys.pos) |-> T("kv", "", <<keys.pos[j], values.pos[j]>>)]

\* which of the current call's key positions query position i may attend to:
\* a causal attn_mask hides the later ones, the padding mask the padded ones
Allowed(i, j, attn_mask, padding_mask) ==
    /\ (attn_mask = "causal" => j <= i)
    /\ j \notin padding_mask

\* the keys/values from position j on that query position i attends to
RECURSIVE Visible(_, _, _, _, _)
Visible(kv, j, i, attn_mask, padding_mask) ==
    IF j > Len(kv) THEN <<>>
    ELSE (IF Allowed(i, j, attn_mask, padding_mask) THEN <<kv[j]>> ELSE <<>>)
         \o Visible(kv, j + 1, i, attn_mask, padding_mask)

\* MultiheadAttention.forward: returns the attention output, of the shape of
\* the queries, and the state bag after the call.  With a bag, self attention
\* (the keys are the queries) appends this call's keys/values to the cached
\* ones and advances the step; attention over other keys caches them on the
\* first call and reuses them afterwards.
MultiheadAttention(name, queries, keys, values, attn_mask, padding_mask, state_bag) ==
    LET kv == KV(keys, values)
        cached == state_bag.cache[name]
        is_self == keys = queries
        past == IF HasBag(state_bag) /\ is_self THEN cached ELSE <<>>
        now == IF HasBag(state_bag) /\ ~is_self /\ cached # <<>> THEN cached ELSE kv
        seen(i) == past \o Visible(now, 1, i, attn_mask, padding_mask)
        out == Tensor(queries.shape,
                      [i \in 1..Len(queries.pos) |->
                          T("attn", name, <<queries.pos[i]>> \o seen(i))])
        b2 == IF ~HasBag(state_bag) THEN state_bag
              ELSE IF is_self
                   THEN [step |-> state_bag.step + Len(queries.pos),
                         cache |-> [state_bag.cache EXCEPT ![name] = cached \o kv]]
                   ELSE [state_bag EXCEPT !.cache[name] = now]
    IN [x |-> out, bag |-> b2]

----------------------------------------------------------------------------
(* TransformerNormOrder *)

POST == "POST"
PRE == "PRE"
PRE_WITH_NORMFORMER == "PRE_WITH_NORMFORMER"

TransformerNormOrder == {POST, PRE, PRE_WITH_NORMFORMER}

----------------------------------------------------------------------------
(* StandardTransformerDecoderLayer *)

\* a sub-module handed to the constructor; None is NoModule
Module(name, model_dim) == [name |-> name, model_dim |-> model_dim]

NoModule == Module("None", 0)

\* no layer has been constructed yet, or the constructor raised
NoLayer(built) ==
    [built |-> built, model_dim |-> 0,
     self_attn |-> NoModule, self_attn_norm |-> "None",
     self_attn_layer_norm |-> "None",
     enc_dec_attn |-> NoModule, enc_dec_attn_layer_norm |-> "None",
     ffn |-> NoModule, residual_scale |-> "None", ffn_layer_norm |-> "None",
     dropout_p |-> 0, norm_order |-> POST, training |-> TRUE]

\* reset_parameters: nn.init.ones_(self.residual_scale)
reset_parameters(self) ==
    IF self.residual_scale # "None"
    THEN [self EXCEPT !.residual_scale = "ones"]
    ELSE self

\* the constructor without the check of the feed-forward network's dimension
__init__NoFfnCheck(self_attn, enc_dec_attn, ffn, scale_residual, dropout_p, norm_order) ==
    LET model_dim == self_attn.model_dim
    IN IF enc_dec_attn # NoModule /\ enc_dec_attn.model_dim # model_dim
       THEN NoLayer("ValueError")
       ELSE reset_parameters(
            [built |-> "yes", model_dim |-> model_dim,
             self_attn |-> self_attn,
             self_attn_norm |->
                 IF norm_order = PRE_WITH_NORMFORMER THEN "self_attn_norm" ELSE "None",
             self_attn_layer_norm |-> "self_attn_layer_norm",
             enc_dec_attn |-> enc_dec_attn,
             enc_dec_attn_layer_norm |->
                 IF enc_dec_attn = NoModule THEN "None" ELSE "enc_dec_attn_layer_norm",
             ffn |-> ffn,
             residual_scale |-> IF scale_residual THEN "empty" ELSE "None",
             ffn_layer_norm |-> "ffn_layer_norm",
             dropout_p |-> dropout_p, norm_order |-> norm_order,
             training |-> TRUE])

\* __init__: the constructed layer, or built = "ValueError".  dropout_p is in
\* percent.  A new torch Module is in training mode.
__init__(self_attn, enc_dec_attn, ffn, scale_residual, dropout_p, norm_order) ==
    LET model_dim == self_attn.model_dim
    IN IF enc_dec_attn # NoModule /\ enc_dec_attn.model_dim # model_dim
       THEN NoLayer("ValueError")
       ELSE IF ffn.model_dim # model_dim
       THEN NoLayer("ValueError")
       ELSE reset_parameters(
            [built |-> "yes", model_dim |-> model_dim,
             self_attn |-> self_attn,
             self_attn_norm |->
                 IF norm_order = PRE_WITH_NORMFORMER THEN "self_attn_norm" ELSE "None",
             self_attn_layer_norm |-> "self_attn_layer_norm",
             enc_dec_attn |-> enc_dec_attn,
             enc_dec_attn_layer_norm |->
                 IF enc_dec_attn = NoModule THEN "None" ELSE "enc_dec_attn_layer_norm",
             ffn |-> ffn,
             residual_scale |-> IF scale_residual THEN "empty" ELSE "None",
             ffn_layer_norm |-> "ffn_layer_norm",
             dropout_p |-> dropout_p, norm_order |-> norm_order,
             training |-> TRUE])

\* one invocation of a module or tensor operation inside forward
Ev(op, args, out, with_bag) == [op |-> op, args |-> args, out |-> out, bag |-> with_bag]

\* the running state of a sub-block: the local x, the invocations so far, the bag
Did(st, op, args, out) ==
    [st EXCEPT !.x = out, !.log = Append(@, Ev(op, args, out, FALSE))]

DoNorm(st, name) == Did(st, name, <<st.x>>, LayerNorm(name, st.x))

DoDropout(self, st, rng) ==
    Did(st, "dropout", <<st.x>>, dropout(st.x, self.dropout_p, self.training, rng))

DoAdd(st, residual) == Did(st, "add", <<st.x, residual>>, add(st.x, residual))

DoAttn(st, name, keys, values, attn_mask, padding_mask) ==
    LET a == MultiheadAttention(name, st.x, keys, values, attn_mask, padding_mask, st.bag)
    IN [x |-> a.x,
        log |-> Append(st.log, Ev(name, <<st.x, keys, values>>, a.x, HasBag(st.bag))),
        bag |-> a.bag, err |-> st.err]

Begin(x, state_bag) == [x |-> x, log |-> <<>>, bag |-> state_bag, err |-> "None"]

\* the self-attention sub-block normalizing the residual sum under every
\* norm order, not only under POST
_forward_self_attn_AlwaysPostNorm(self, x, padding_mask, self_attn_mask, state_bag, rng) ==
    LET residual == x
        s1 == IF self.norm_order # POST
              THEN DoNorm(Begin(x, state_bag), self.self_attn_layer_norm)
              ELSE Begin(x, state_bag)
        s2 == DoAttn(s1, self.self_attn.name, s1.x, s1.x, self_attn_mask, padding_mask)
        s3 == IF self.self_attn_norm # "None" THEN DoNorm(s2, self.self_attn_norm) ELSE s2
        s4 == IF self.dropout_p > 0 THEN DoDropout(self, s3, rng) ELSE s3
        s5 == DoAdd(s4, residual)
    IN DoNorm(s5, self.self_attn_layer_norm)

\* the self-attention sub-block applying the extra normalization to the
\* residual sum instead of the attention output
_forward_self_attn_NormformerOnSum(self, x, padding_mask, self_attn_mask, state_bag, rng) ==
    LET residual == x
        s1 == IF self.norm_order # POST
              THEN DoNorm(Begin(x, state_bag), self.self_attn_layer_norm)
              ELSE Begin(x, state_bag)
        s2 == DoAttn(s1, self.self_attn.name, s1.x, s1.x, self_attn_mask, padding_mask)
        s4 == IF self.dropout_p > 0 THEN DoDropout(self, s2, rng) ELSE s2
        s5 == DoAdd(s4, residual)
        s6 == IF self.self_attn_norm # "None" THEN DoNorm(s5, self.self_attn_norm) ELSE s5
    IN IF self.norm_order = POST THEN DoNorm(s6, self.self_attn_layer_norm) ELSE s6

\* the self-attention sub-block calling the attention module without the
\* state bag
_forward_self_attn_NoBag(self, x, padding_mask, self_attn_mask, state_bag, rng) ==
    LET residual == x
        s1 == IF self.norm_order # POST
              THEN DoNorm(Begin(x, state_bag), self.self_attn_layer_norm)
              ELSE Begin(x, state_bag)
        a == DoAttn([s1 EXCEPT !.bag = NoBag], self.self_attn.name, s1.x, s1.x,
                    self_attn_mask, padding_mask)
        s2 == [a EXCEPT !.bag = state_bag]
        s3 == IF self.self_attn_norm # "None" THEN DoNorm(s2, self.self_attn_norm) ELSE s2
        s4 == IF self.dropout_p > 0 THEN DoDropout(self, s3, rng) ELSE s3
        s5 == DoAdd(s4, residual)
    IN IF self.norm_order = POST THEN DoNorm(s5, self.self_attn_layer_norm) ELSE s5

_forward_self_attn(self, x, padding_mask, self_attn_mask, state_bag, rng) ==
    LET residual == x
        s1 == IF self.norm_order # POST
              THEN DoNorm(Begin(x, state_bag), self.self_attn_layer_norm)
              ELSE Begin(x, state_bag)
        s2 == DoAttn(s1, self.self_attn.name, s1.x, s1.x, self_attn_mask, padding_mask)
        s3 == IF self.self_attn_norm # "None" THEN DoNorm(s2, self.self_attn_norm) ELSE s2
        s4 == IF self.dropout_p > 0 THEN DoDropout(self, s3, rng) ELSE s3
        s5 == DoAdd(s4, residual)
    IN IF self.norm_order = POST THEN DoNorm(s5, self.self_attn_layer_norm) ELSE s5

\* the cross-attention sub-block of a decoder-only layer ignoring enc_out
\* instead of rejecting it
_forward_enc_dec_attn_Lenient(self, x, enc_out, enc_padding_mask, state_bag, rng) ==
    IF self.enc_dec_attn = NoModule
    THEN Begin(x, state_bag)
    ELSE IF IsNone(enc_out)
    THEN [Begin(x, state_bag) EXCEPT !.err = "ValueError"]
    ELSE
    LET residual == x
        s1 == IF self.norm_order # POST
              THEN DoNorm(Begin(x, state_bag), self.enc_dec_attn_layer_norm)
              ELSE Begin(x, state_bag)
        s2 == DoAttn(s1, self.enc_dec_attn.name, enc_out, enc_out, "none", enc_padding_mask)
        s3 == IF self.dropout_p > 0 THEN DoDropout(self, s2, rng) ELSE s2
        s4 == DoAdd(s3, residual)
    IN IF self.norm_order = POST THEN DoNorm(s4, self.enc_dec_attn_layer_norm) ELSE s4

\* the cross-attention sub-block with queries and keys exchanged: the encoder
\* output attends to x
_forward_enc_dec_attn_Swapped(self, x, enc_out, enc_padding_mask, state_bag, rng) ==
    IF self.enc_dec_attn = NoModule
    THEN IF ~IsNone(enc_out)
         THEN [Begin(x, state_bag) EXCEPT !.err = "ValueError"]
         ELSE Begin(x, state_bag)
    ELSE IF IsNone(enc_out)
    THEN [Begin(x, state_bag) EXCEPT !.err = "ValueError"]
    ELSE
    LET residual == x
        s1 == IF self.norm_order # POST
              THEN DoNorm(Begin(x, state_bag), self.enc_dec_attn_layer_norm)
              ELSE Begin(x, state_bag)
        s2 == DoAttn([s1 EXCEPT !.x = enc_out], self.enc_dec_attn.name, s1.x, s1.x,
                     "none", enc_padding_mask)
        s3 == IF self.dropout_p > 0 THEN DoDropout(self, s2, rng) ELSE s2
        s4 == DoAdd(s3, residual)
    IN IF self.norm_order = POST THEN DoNorm(s4, self.enc_dec_attn_layer_norm) ELSE s4

_forward_enc_dec_attn(self, x, enc_out, enc_padding_mask, state_bag, rng) ==
    IF self.enc_dec_attn = NoModule
    THEN IF ~IsNone(enc_out)
         THEN [Begin(x, state_bag) EXCEPT !.err = "ValueError"]
         ELSE Begin(x, state_bag)
    ELSE IF IsNone(enc_out)
    THEN [Begin(x, state_bag) EXCEPT !.err = "ValueError"]
    ELSE
    LET residual == x
        s1 == IF self.norm_order # POST
              THEN DoNorm(Begin(x, state_bag), self.enc_dec_attn_layer_norm)
              ELSE Begin(x, state_bag)
        s2 == DoAttn(s1, self.enc_dec_attn.name, enc_out, enc_out, "none", enc_padding_mask)
        s3 == IF self.dropout_p > 0 THEN DoDropout(self, s2, rng) ELSE s2
        s4 == DoAdd(s3, residual)
    IN IF self.norm_order = POST THEN DoNorm(s4, self.enc_dec_attn_layer_norm) ELSE s4

\* the feed-forward sub-block scaling the network's output instead of the
\* residual
_forward_ffn_ScaleBranch(self, x, rng) ==
    LET residual == x
        s1 == IF self.norm_order # POST
              THEN DoNorm(Begin(x, NoBag), self.ffn_layer_norm)
              ELSE Begin(x, NoBag)
        s2 == Did(s1, self.ffn.name, <<s1.x>>, FeedForwardNetwork(self.ffn.name, s1.x))
        s3 == IF self.dropout_p > 0 THEN DoDropout(self, s2, rng) ELSE s2
        s4 == IF self.residual_scale # "None"
              THEN Did(s3, "mul", <<s3.x>>, mul(self.residual_scale, s3.x))
              ELSE s3
        s5 == DoAdd(s4, residual)
    IN IF self.norm_order = POST THEN DoNorm(s5, self.ffn_layer_norm) ELSE s5

_forward_ffn(self, x, rng) ==
    LET residual == x
        s1 == IF self.norm_order # POST
              THEN DoNorm(Begin(x, NoBag), self.ffn_layer_norm)
              ELSE Begin(x, NoBag)
        s2 == Did(s1, self.ffn.name, <<s1.x>>, FeedForwardNetwork(self.ffn.name, s1.x))
        s3 == IF self.dropout_p > 0 THEN DoDropout(self, s2, rng) ELSE s2
        scaled == IF self.residual_scale # "None"
                  THEN mul(self.residual_scale, residual)
                  ELSE residual
        s4 == IF self.residual_scale # "None"
              THEN [s3 EXCEPT !.log = Append(@, Ev("mul", <<residual>>, scaled, FALSE))]
              ELSE s3
        s5 == DoAdd(s4, scaled)
    IN IF self.norm_order = POST THEN DoNorm(s5, self.ffn_layer_norm) ELSE s5

\* forward, run to its end: the returned tensor (or the error raised) and the
\* state bag after the call
forward(self, x, padding_mask, self_attn_mask, enc_out, enc_padding_mask, state_bag, rng) ==
    LET a == _forward_self_attn(self, x, padding_mask, self_attn_mask, state_bag, rng)
        b == _forward_enc_dec_attn(self, a.x, enc_out, enc_padding_mask, a.bag, rng)
        c == _forward_ffn(self, b.x, rng)
    IN IF b.err # "None"
       THEN [x |-> NoTensor, bag |-> b.bag, err |-> b.err]
       ELSE [x |-> c.x, bag |-> b.bag, err |-> "None"]

----------------------------------------------------------------------------
(* The callers: construction, and generation sessions calling forward *)

NoArgs ==
    [self_attn |-> NoModule, enc_dec_attn |-> NoModule, ffn |-> NoModule,
     scale_residual |-> FALSE, dropout_p |-> 0, norm_order |-> POST]

NoCall ==
    [x |-> NoTensor, padding_mask |-> {}, self_attn_mask |-> "none",
     enc_out |-> NoTensor, enc_padding_mask |-> {}, state_bag |-> FALSE,
     rng |-> "r1"]

\* the padding masks tried for n key positions: none, or the last one padded
PaddingMasks(n) == {{}} \cup (IF n >= 2 THEN {{n}} ELSE {})

\* the self-attention masks tried for n positions: none, or the causal mask
\* (which for one position hides nothing, and is not tried)
AttnMasks(n) == {"none"} \cup (IF n >= 2 THEN {"causal"} ELSE {})

DropoutPs == {0, 10}

RECURSIVE Fed(_)
\* how many positions of its sequence a session has passed to forward
Fed(h) == IF h = <<>> THEN 0 ELSE Len(h[1].x.pos) + Fed(Tail(h))

NoCallYet == \A s \in Sessions : hist[s] = <<>>

LayerInit ==
    /\ layer = NoLayer("no")
    /\ ctor_args = NoArgs
    /\ pc = [s \in Sessions |-> "idle"]
    /\ call = [s \in Sessions |-> NoCall]
    /\ cur = [s \in Sessions |-> NoTensor]
    /\ trace = [s \in Sessions |-> <<>>]
    /\ ret = [s \in Sessions |-> NoTensor]
    /\ bag = [s \in Sessions |-> EmptyBag]
    /\ hist = [s \in Sessions |-> <<>>]
    /\ outs = [s \in Sessions |-> <<>>]

\* StandardTransformerDecoderLayer(self_attn, enc_dec_attn, ffn, ...)
Construct ==
    /\ layer.built = "no"
    /\ \E d1 \in SelfDims, d2 \in Dims \cup {0}, d3 \in Dims,
          scale_residual \in BOOLEAN, dropout_p \in DropoutPs,
          norm_order \in TransformerNormOrder :
          LET a == [self_attn |-> Module("self_attn", d1),
                    enc_dec_attn |-> IF d2 = 0 THEN NoModule
                                     ELSE Module("enc_dec_attn", d2),
                    ffn |-> Module("ffn", d3),
                    scale_residual |-> scale_residual,
                    dropout_p |-> dropout_p, norm_order |-> norm_order]
          IN /\ ctor_args' = a
             /\ layer' = __init__(a.self_attn, a.enc_dec_attn, a.ffn,
                                   a.scale_residual, a.dropout_p, a.norm_order)
    /\ UNCHANGED <<sessVars, loaderVars>>

\* Module.eval(): leave training mode
Eval ==
    /\ layer.built = "yes" /\ layer.training /\ NoCallYet
    /\ layer' = [layer EXCEPT !.training = FALSE]
    /\ UNCHANGED <<ctor_args, sessVars, loaderVars>>

\* the owner of the parameter (a test, an optimizer step) overwrites it
SetResidualScale ==
    /\ layer.built = "yes" /\ layer.residual_scale = "ones" /\ NoCallYet
    /\ layer' = [layer EXCEPT !.residual_scale = "zeros"]
    /\ UNCHANGED <<ctor_args, sessVars, loaderVars>>

\* a session calls layer.forward(x, ...) with the next chunk of its sequence.
\* The batch, the encoder output and whether a state bag is passed are the
\* session's; the chunk, the masks and the RNG state are the call's.  menu
\* gives the chunk lengths, batch sizes (0: unbatched), encoder output lengths
\* (0: None) and state_bag choices the caller picks from, and whether it
\* tries padding masks.
CallWith(s, menu) ==
    /\ layer.built = "yes"
    /\ pc[s] \in {"idle", "returned", "raised"}
    /\ Fed(hist[s]) < MaxLen
    /\ \E n \in menu.chunks \cap 1..(MaxLen - Fed(hist[s])), batch \in menu.batches,
          m \in menu.srcs, state_bag \in menu.bags,
          rng \in (IF layer.dropout_p > 0 /\ layer.training THEN Seeds ELSE {"r1"}) :
          \E padding_mask \in (IF menu.padded THEN PaddingMasks(n) ELSE {{}}),
             self_attn_mask \in AttnMasks(n),
             enc_padding_mask \in (IF menu.padded THEN PaddingMasks(m) ELSE {{}}) :
          LET first == hist[s] = <<>>
              x == InputChunk(s, Fed(hist[s]) + 1, n, batch, layer.model_dim)
              enc_out == IF m = 0 THEN NoTensor ELSE EncOut(m, batch, layer.model_dim)
              c == [x |-> x, padding_mask |-> padding_mask,
                    self_attn_mask |-> self_attn_mask,
                    enc_out |-> enc_out, enc_padding_mask |-> enc_padding_mask,
                    state_bag |-> state_bag, rng |-> rng]
          IN /\ ~first => /\ Len(x.shape) = Len(hist[s][1].x.shape)
                          /\ enc_out = hist[s][1].enc_out
                          /\ enc_padding_mask = hist[s][1].enc_padding_mask
                          /\ state_bag = hist[s][1].state_bag
             /\ call' = [call EXCEPT ![s] = c]
             /\ hist' = [hist EXCEPT ![s] = Append(@, c)]
             /\ cur' = [cur EXCEPT ![s] = x]
             /\ trace' = [trace EXCEPT ![s] = <<>>]
             /\ pc' = [pc EXCEPT ![s] = "self_attn"]
    /\ UNCHANGED <<layerVars, ret, bag, outs, loaderVars>>

\* any call: full passes and incremental ones, batched or not, with or
\* without encoder output and state bag
Call(s) ==
    CallWith(s, [chunks |-> 1..MaxLen, batches |-> {0} \cup BatchSizes,
                 srcs |-> {0} \cup SrcLens, bags |-> BOOLEAN, padded |-> TRUE])

\* a call of an incremental generation session: one position, with the
\* session's state bag, with encoder output where the layer attends to it,
\* and nothing padded
DecodeStep(s) ==
    CallWith(s, [chunks |-> {1}, batches |-> {0},
                 srcs |-> IF layer.enc_dec_attn = NoModule THEN {0} ELSE SrcLens,
                 bags |-> {TRUE}, padded |-> FALSE])

Block(blk, in, st) == [blk |-> blk, in |-> in, out |-> st.x, log |-> st.log]

PassedBag(s) == IF call[s].state_bag THEN bag[s] ELSE NoBag

\* the self-attention step keeping the incremental state in one place for the
\* layer instead of in the bag the caller passed
SelfAttnStepLayerState(s) ==
    /\ pc[s] = "self_attn"
    /\ LET r == _forward_self_attn(layer, cur[s], call[s].padding_mask,
                                   call[s].self_attn_mask,
                                   IF call[s].state_bag THEN bag[1] ELSE NoBag, call[s].rng)
       IN /\ cur' = [cur EXCEPT ![s] = r.x]
          /\ bag' = IF call[s].state_bag THEN [bag EXCEPT ![1] = r.bag] ELSE bag
          /\ trace' = [trace EXCEPT ![s] = Append(@, Block("self_attn", cur[s], r))]
    /\ pc' = [pc EXCEPT ![s] = "enc_dec_attn"]
    /\ UNCHANGED <<layerVars, call, ret, hist, outs, loaderVars>>

\* the self-attention step of a forward that validates enc_out on entry: a
\* call that cannot succeed raises before any module is invoked
SelfAttnStepCheckFirst(s) ==
    /\ pc[s] = "self_attn"
    /\ LET v == _forward_enc_dec_attn(layer, cur[s], call[s].enc_out,
                                      call[s].enc_padding_mask, NoBag, call[s].rng)
           r == _forward_self_attn(layer, cur[s], call[s].padding_mask,
                                   call[s].self_attn_mask, PassedBag(s), call[s].rng)
       IN IF v.err # "None"
          THEN /\ pc' = [pc EXCEPT ![s] = "raised"]
               /\ UNCHANGED <<cur, bag, trace>>
          ELSE /\ pc' = [pc EXCEPT ![s] = "enc_dec_attn"]
               /\ cur' = [cur EXCEPT ![s] = r.x]
               /\ bag' = IF call[s].state_bag THEN [bag EXCEPT ![s] = r.bag] ELSE bag
               /\ trace' = [trace EXCEPT ![s] = Append(@, Block("self_attn", cur[s], r))]
    /\ UNCHANGED <<layerVars, call, ret, hist, outs, loaderVars>>

\* x = self._forward_self_attn(x, padding_mask, self_attn_mask, state_bag)
SelfAttnStep(s) ==
    /\ pc[s] = "self_attn"
    /\ LET r == _forward_self_attn(layer, cur[s], call[s].padding_mask,
                                   call[s].self_attn_mask, PassedBag(s), call[s].rng)
       IN /\ cur' = [cur EXCEPT ![s] = r.x]
          /\ bag' = IF call[s].state_bag THEN [bag EXCEPT ![s] = r.bag] ELSE bag
          /\ trace' = [trace EXCEPT ![s] = Append(@, Block("self_attn", cur[s], r))]
    /\ pc' = [pc EXCEPT ![s] = "enc_dec_attn"]
    /\ UNCHANGED <<layerVars, call, ret, hist, outs, loaderVars>>

\* the cross-attention step run on the x the caller passed to forward instead
\* of on the output of the self-attention sub-block
EncDecAttnStepOnInput(s) ==
    /\ pc[s] = "enc_dec_attn"
    /\ LET r == _forward_enc_dec_attn(layer, call[s].x, call[s].enc_out,
                                      call[s].enc_padding_mask, PassedBag(s), call[s].rng)
       IN IF r.err # "None"
          THEN /\ pc' = [pc EXCEPT ![s] = "raised"]
               /\ UNCHANGED <<cur, bag, trace>>
          ELSE /\ pc' = [pc EXCEPT ![s] = "ffn"]
               /\ cur' = [cur EXCEPT ![s] = r.x]
               /\ bag' = IF call[s].state_bag THEN [bag EXCEPT ![s] = r.bag] ELSE bag
               /\ trace' = [trace EXCEPT ![s] = Append(@, Block("enc_dec_attn", call[s].x, r))]
    /\ UNCHANGED <<layerVars, call, ret, hist, outs, loaderVars>>

\* x = self._forward_enc_dec_attn(x, enc_out, enc_padding_mask, state_bag)
EncDecAttnStep(s) ==
    /\ pc[s] = "enc_dec_attn"
    /\ LET r == _forward_enc_dec_attn(layer, cur[s], call[s].enc_out,
                                      call[s].enc_padding_mask, PassedBag(s), call[s].rng)
       IN IF r.err # "None"
          THEN /\ pc' = [pc EXCEPT ![s] = "raised"]
               /\ UNCHANGED <<cur, bag, trace>>
          ELSE /\ pc' = [pc EXCEPT ![s] = "ffn"]
               /\ cur' = [cur EXCEPT ![s] = r.x]
               /\ bag' = IF call[s].state_bag THEN [bag EXCEPT ![s] = r.bag] ELSE bag
               /\ trace' = [trace EXCEPT ![s] = Append(@, Block("enc_dec_attn", cur[s], r))]
    /\ UNCHANGED <<layerVars, call, ret, hist, outs, loaderVars>>

\* x = self._forward_ffn(x); return x
FfnStep(s) ==
    /\ pc[s] = "ffn"
    /\ LET r == _forward_ffn(layer, cur[s], call[s].rng)
       IN /\ cur' = [cur EXCEPT ![s] = r.x]
          /\ ret' = [ret EXCEPT ![s] = r.x]
          /\ outs' = [outs EXCEPT ![s] = @ \o r.x.pos]
          /\ trace' = [trace EXCEPT ![s] = Append(@, Block("ffn", cur[s], r))]
    /\ pc' = [pc EXCEPT ![s] = "returned"]
    /\ UNCHANGED <<layerVars, call, bag, hist, loaderVars>>

LoaderIdle ==
    /\ loaded = <<>>
    /\ ckpt = <<>>
    /\ heap = <<>>
    /\ lpc = "off"

Init == LayerInit /\ LoaderIdle

\* one caller, making any calls
Next ==
    \/ Construct
    \/ Eval
    \/ SetResidualScale
    \/ Call(1)
    \/ SelfAttnStep(1)
    \/ EncDecAttnStep(1)
    \/ FfnStep(1)

Spec == Init /\ [][Next]_vars

\* two generation sessions on the same layer, their sub-block steps interleaved
NextSessions ==
    \/ Construct
    \/ Eval
    \/ \E s \in Sessions : DecodeStep(s)
    \/ \E s \in Sessions : SelfAttnStep(s)
    \/ \E s \in Sessions : EncDecAttnStep(s)
    \/ \E s \in Sessions : FfnStep(s)

SpecSessions == Init /\ [][NextSessions]_vars

----------------------------------------------------------------------------
(* NllbLoader: upgrading a fairseq checkpoint *)

\* A parameter name is the sequence of its dot-separated components:
\* "encoder.layers.3.fc1.weight" is <<"encoder", "layers", "3", "fc1", "weight">>.

\* the components tried as layer indices that match [0-9]+
IndexStrings == {"0", "3", "12"}

\* the regular expression ^head\.([0-9]+)\.tail\. (with idx), or ^head\.
\* (without), and the replacement head.\1.tail. or head.
Rule(head, idx, tail, to_head, to_tail) ==
    [pat |-> [head |-> head, idx |-> idx, tail |-> tail],
     rep |-> [head |-> to_head, tail |-> to_tail]]

\* a Python dict display: a key given twice keeps its first place and takes
\* the last value
RECURSIVE DictDisplay(_, _)
DictDisplay(items, acc) ==
    IF items = <<>> THEN acc
    ELSE LET it == items[1]
             at == {i \in 1..Len(acc) : acc[i].pat = it.pat}
         IN DictDisplay(Tail(items),
                        IF at = {} THEN Append(acc, it)
                        ELSE [i \in 1..Len(acc) |-> IF i \in at THEN it ELSE acc[i]])

\* the key map with the pattern for every encoder_attn parameter declared
\* before the one for encoder_attn.out_proj
_fairseq_key_map_GeneralFirst ==
    DictDisplay(<<
        Rule(<<"decoder", "layers">>, TRUE, <<"self_attn", "out_proj">>,
             <<"decoder", "layers">>, <<"self_attn", "output_proj">>),
        Rule(<<"encoder", "layers">>, TRUE, <<"self_attn", "out_proj">>,
             <<"encoder", "layers">>, <<"self_attn", "output_proj">>),
        Rule(<<"decoder", "layers">>, TRUE, <<"encoder_attn">>,
             <<"decoder", "layers">>, <<"encoder_decoder_attn">>),
        Rule(<<"decoder", "layers">>, TRUE, <<"encoder_attn", "out_proj">>,
             <<"decoder", "layers">>, <<"encoder_decoder_attn", "output_proj">>),
        Rule(<<"decoder", "layers">>, TRUE, <<"encoder_attn", "out_proj">>,
             <<"decoder", "layers">>, <<"encoder_decoder_attn", "output_proj">>),
        Rule(<<"decoder", "layers">>, TRUE, <<"encoder_attn_layer_norm">>,
             <<"decoder", "layers">>, <<"encoder_decoder_attn_layer_norm">>),
        Rule(<<"encoder", "layers">>, TRUE, <<"fc1">>,
             <<"encoder", "layers">>, <<"ffn", "inner_proj">>),
        Rule(<<"decoder", "layers">>, TRUE, <<"fc1">>,
             <<"decoder", "layers">>, <<"ffn", "inner_proj">>),
        Rule(<<"encoder", "layers">>, TRUE, <<"fc2">>,
             <<"encoder", "layers">>, <<"ffn", "output_proj">>),
        Rule(<<"decoder", "layers">>, TRUE, <<"fc2">>,
             <<"decoder", "layers">>, <<"ffn", "output_proj">>),
        Rule(<<"encoder", "layers">>, TRUE, <<"final_layer_norm">>,
             <<"encoder", "layers">>, <<"ffn_layer_norm">>),
        Rule(<<"decoder", "layers">>, TRUE, <<"final_layer_norm">>,
             <<"decoder", "layers">>, <<"ffn_layer_norm">>),
        Rule(<<"encoder", "embed_tokens">>, FALSE, <<>>,
             <<"encoder_frontend", "embed">>, <<>>),
        Rule(<<"decoder", "embed_tokens">>, FALSE, <<>>,
             <<"decoder_frontend", "embed">>, <<>>),
        Rule(<<"decoder", "output_projection">>, FALSE, <<>>,
             <<"final_proj">>, <<>>)
    >>, <<>>)

_fairseq_key_map ==
    DictDisplay(<<
        Rule(<<"decoder", "layers">>, TRUE, <<"self_attn", "out_proj">>,
             <<"decoder", "layers">>, <<"self_attn", "output_proj">>),
        Rule(<<"encoder", "layers">>, TRUE, <<"self_attn", "out_proj">>,
             <<"encoder", "layers">>, <<"self_attn", "output_proj">>),
        Rule(<<"decoder", "layers">>, TRUE, <<"encoder_attn", "out_proj">>,
             <<"decoder", "layers">>, <<"encoder_decoder_attn", "output_proj">>),
        Rule(<<"decoder", "layers">>, TRUE, <<"encoder_attn", "out_proj">>,
             <<"decoder", "layers">>, <<"encoder_decoder_attn", "output_proj">>),
        Rule(<<"decoder", "layers">>, TRUE, <<"encoder_attn">>,
             <<"decoder", "layers">>, <<"encoder_decoder_attn">>),
        Rule(<<"decoder", "layers">>, TRUE, <<"encoder_attn_layer_norm">>,
             <<"decoder", "layers">>, <<"encoder_decoder_attn_layer_norm">>),
        Rule(<<"encoder", "layers">>, TRUE, <<"fc1">>,
             <<"encoder", "layers">>, <<"ffn", "inner_proj">>),
        Rule(<<"decoder", "layers">>, TRUE, <<"fc1">>,
             <<"decoder", "layers">>, <<"ffn", "inner_proj">>),
        Rule(<<"encoder", "layers">>, TRUE, <<"fc2">>,
             <<"encoder", "layers">>, <<"ffn", "output_proj">>),
        Rule(<<"decoder", "layers">>, TRUE, <<"fc2">>,
             <<"decoder", "layers">>, <<"ffn", "output_proj">>),
        Rule(<<"encoder", "layers">>, TRUE, <<"final_layer_norm">>,
             <<"encoder", "layers">>, <<"ffn_layer_norm">>),
        Rule(<<"decoder", "layers">>, TRUE, <<"final_layer_norm">>,
             <<"decoder", "layers">>, <<"ffn_layer_norm">>),
        Rule(<<"encoder", "embed_tokens">>, FALSE, <<>>,
             <<"encoder_frontend", "embed">>, <<>>),
        Rule(<<"decoder", "embed_tokens">>, FALSE, <<>>,
             <<"decoder_frontend", "embed">>, <<>>),
        Rule(<<"decoder", "output_projection">>, FALSE, <<>>,
             <<"final_proj">>, <<>>)
    >>, <<>>)

\* how many components the pattern consumes
PatLen(pat) == Len(pat.head) + (IF pat.idx THEN 1 ELSE 0) + Len(pat.tail)

\* re.search(pattern, key): the pattern is anchored at the start and ends in
\* "\.", so a component must follow what it consumes
Matches(pat, key) ==
    /\ Len(key) > PatLen(pat)
    /\ SubSeq(key, 1, Len(pat.head)) = pat.head
    /\ pat.idx => key[Len(pat.head) + 1] \in IndexStrings
    /\ SubSeq(key, PatLen(pat) - Len(pat.tail) + 1, PatLen(pat)) = pat.tail

\* re.sub(pattern, replacement, key)
re_sub(rule, key) ==
    IF Matches(rule.pat, key)
    THEN rule.rep.head
         \o (IF rule.pat.idx THEN <<key[Len(rule.pat.head) + 1]>> ELSE <<>>)
         \o rule.rep.tail
         \o SubSeq(key, PatLen(rule.pat) + 1, Len(key))
    ELSE key

\* the key after every (pattern, replacement) pair was applied to it, in order
RECURSIVE ApplyKeyMap(_, _)
ApplyKeyMap(key_map, key) ==
    IF key_map = <<>> THEN key
    ELSE ApplyKeyMap(Tail(key_map), re_sub(key_map[1], key))

\* d[key] = obj on a dict, kept as its items in insertion order
DictSet(d, key, obj) ==
    IF \E i \in 1..Len(d) : d[i].key = key
    THEN [i \in 1..Len(d) |-> IF d[i].key = key THEN [key |-> key, obj |-> obj] ELSE d[i]]
    ELSE Append(d, [key |-> key, obj |-> obj])

HasKey(d, key) == \E i \in 1..Len(d) : d[i].key = key

DictGet(d, key) == d[CHOOSE i \in 1..Len(d) : d[i].key = key].obj

\* upgrade_fairseq_checkpoint: a new state dict, every parameter under its
\* renamed key
RECURSIVE upgrade_fairseq_checkpoint(_, _, _)
upgrade_fairseq_checkpoint(state_dict, key_map, acc) ==
    IF state_dict = <<>> THEN acc
    ELSE upgrade_fairseq_checkpoint(
             Tail(state_dict), key_map,
             DictSet(acc, ApplyKeyMap(key_map, state_dict[1].key), state_dict[1].obj))

\* embeds[idx]: advanced indexing with 0-based row numbers returns a copy
IndexGet(t, idx) == [k \in 1..Len(idx) |-> t[idx[k] + 1]]

\* embeds[idx] = vals
IndexPut(t, idx, vals) ==
    [r \in 1..Len(t) |->
        IF \E k \in 1..Len(idx) : idx[k] + 1 = r
        THEN vals[CHOOSE k \in 1..Len(idx) : idx[k] + 1 = r]
        ELSE t[r]]

\* the rows moved one after the other, each read after the earlier writes
RECURSIVE MoveRows(_, _, _)
MoveRows(t, to, from) ==
    IF to = <<>> THEN t
    ELSE MoveRows([t EXCEPT ![to[1] + 1] = t[from[1] + 1]], Tail(to), Tail(from))

PermuteControlTokens_InPlace(t) == MoveRows(t, <<0, 1, 2, 3>>, <<1, 3, 0, 2>>)

\* embeds[[0, 1, 2, 3]] = embeds[[1, 3, 0, 2]]
PermuteControlTokens(t) == IndexPut(t, <<0, 1, 2, 3>>, IndexGet(t, <<1, 3, 0, 2>>))

FINAL_PROJ == <<"final_proj", "weight">>
ENC_EMBED == <<"encoder_frontend", "embed", "weight">>
DEC_EMBED == <<"decoder_frontend", "embed", "weight">>

\* the embedding parameters of a fairseq checkpoint
EmbeddingKeys ==
    {<<"decoder", "output_projection", "weight">>,
     <<"encoder", "embed_tokens", "weight">>,
     <<"decoder", "embed_tokens", "weight">>}

\* the other parameter names tried: one for every pattern, some with other
\* layer indices and suffixes, some that no pattern matches, and some that
\* already are destination names
KeyPool ==
    {<<"decoder", "layers", "3", "self_attn", "out_proj", "weight">>,
     <<"encoder", "layers", "3", "self_attn", "out_proj", "weight">>,
     <<"decoder", "layers", "3", "encoder_attn", "out_proj", "weight">>,
     <<"decoder", "layers", "12", "encoder_attn", "out_proj", "bias">>,
     <<"decoder", "layers", "3", "encoder_attn", "k_proj", "weight">>,
     <<"decoder", "layers", "0", "encoder_attn", "q_proj", "bias">>,
     <<"decoder", "layers", "3", "encoder_attn_layer_norm", "weight">>,
     <<"encoder", "layers", "3", "fc1", "weight">>,
     <<"decoder", "layers", "3", "fc1", "weight">>,
     <<"encoder", "layers", "12", "fc2", "bias">>,
     <<"decoder", "layers", "3", "fc2", "weight">>,
     <<"encoder", "layers", "3", "final_layer_norm", "weight">>,
     <<"decoder", "layers", "0", "final_layer_norm", "bias">>,
     <<"encoder", "layers", "3", "self_attn", "k_proj", "weight">>,
     <<"decoder", "layers", "3", "self_attn_layer_norm", "weight">>,
     <<"decoder", "layers", "x", "fc1", "weight">>,
     <<"decoder", "layers", "3", "fc1">>,
     <<"model", "decoder", "layers", "3", "fc1", "weight">>,
     <<"decoder", "layers", "3", "ffn", "inner_proj", "weight">>,
     <<"decoder", "layers", "3", "encoder_decoder_attn", "output_proj", "weight">>}

\* the sequences of at most n different elements of S
RECURSIVE Arrangements(_, _)
Arrangements(S, n) ==
    IF n = 0 THEN {<<>>}
    ELSE LET shorter == Arrangements(S, n - 1)
             longest == {q \in shorter : Len(q) = n - 1}
         IN shorter \cup
            UNION {{Append(q, k) : k \in {e \in S : \A i \in 1..Len(q) : q[i] # e}} :
                   q \in longest}

\* the rows of tensor object id as the checkpoint file holds them: row r of
\* object id is named <<id, r>>, rows counted from 0
FileRows(id) == [r \in 1..NumRows |-> <<id, r - 1>>]

\* a checkpoint read from a file: some of the embedding parameters and up to
\* MaxKeys others, every parameter its own tensor
LoaderInit ==
    /\ \E emb \in SUBSET EmbeddingKeys, rest \in Arrangements(KeyPool, MaxKeys) :
          LET keys == rest \o
                      SelectSeq(<<<<"decoder", "output_projection", "weight">>,
                                  <<"encoder", "embed_tokens", "weight">>,
                                  <<"decoder", "embed_tokens", "weight">>>>,
                                LAMBDA k : k \in emb)
          IN /\ loaded = [i \in 1..Len(keys) |-> [key |-> keys[i], obj |-> i]]
             /\ heap = [i \in 1..Len(keys) |-> FileRows(i)]
    /\ ckpt = loaded
    /\ lpc = "loaded"

\* _upgrade_checkpoint, first part:
\* checkpoint = upgrade_fairseq_checkpoint(checkpoint, self._fairseq_key_map())
UpgradeKeys ==
    /\ lpc = "loaded"
    /\ ckpt' = upgrade_fairseq_checkpoint(ckpt, _fairseq_key_map, <<>>)
    /\ lpc' = "renamed"
    /\ UNCHANGED <<layerVars, sessVars, loaded, heap>>

\* _upgrade_checkpoint, second part: the embeddings.  state_dict[...] raises
\* KeyError when the checkpoint has no final_proj.weight.
FixEmbeddings ==
    /\ lpc = "renamed"
    /\ IF ~HasKey(ckpt, FINAL_PROJ)
       THEN /\ lpc' = "KeyError"
            /\ UNCHANGED <<ckpt, heap>>
       ELSE LET embeds == DictGet(ckpt, FINAL_PROJ)
            IN /\ ckpt' = DictSet(DictSet(ckpt, ENC_EMBED, embeds), DEC_EMBED, embeds)
               /\ heap' = [heap EXCEPT ![embeds] = PermuteControlTokens(@)]
               /\ lpc' = "done"
    /\ UNCHANGED <<layerVars, sessVars, loaded>>

InitLoader == LayerInit /\ LoaderInit

NextLoader ==
    \/ UpgradeKeys
    \/ FixEmbeddings

SpecLoader == InitLoader /\ [][NextLoader]_vars

----------------------------------------------------------------------------
(* Reading a sub-block's record of invocations *)

\* the positions in log of the invocations of op
At(log, op) == {i \in 1..Len(log) : log[i].op = op}

The(S) == CHOOSE i \in S : TRUE

NormOf(blk) ==
    CASE blk = "self_attn" -> layer.self_attn_layer_norm
      [] blk = "enc_dec_attn" -> layer.enc_dec_attn_layer_norm
      [] blk = "ffn" -> layer.ffn_layer_norm

TransformOf(blk) ==
    CASE blk = "self_attn" -> layer.self_attn.name
      [] blk = "enc_dec_attn" -> layer.enc_dec_attn.name
      [] blk = "ffn" -> layer.ffn.name

NormNames ==
    {"self_attn_layer_norm", "self_attn_norm", "enc_dec_attn_layer_norm", "ffn_layer_norm"}

\* the sub-blocks of the current call of session s that ran a transform (the
\* cross-attention step of a decoder-only layer runs none)
Ran(s) == {k \in 1..Len(trace[s]) : trace[s][k].log # <<>>}

\* the call of session s passes encoder output exactly when it must not
Mismatch(s) == (layer.enc_dec_attn = NoModule) = ~IsNone(call[s].enc_out)

----------------------------------------------------------------------------
(* The claims *)

\* C1: forward raises ValueError exactly when enc_out is given to a layer
\* without cross-attention or withheld from a layer with cross-attention, under
\* every norm order; in every other case it returns a tensor.
C1_EncOutContract ==
    \A s \in Sessions :
        /\ pc[s] \in {"ffn", "returned", "raised"} => (pc[s] = "raised" <=> Mismatch(s))
        /\ pc[s] = "returned" => ~IsNone(ret[s]) /\ ret[s] # ShapeError

C1_Witness ==
    /\ pc[1] = "raised"
    /\ layer.enc_dec_attn # NoModule
    /\ IsNone(call[1].enc_out)
    /\ layer.norm_order = PRE

\* C3: in every sub-block that runs, the sub-block's layer normalization is
\* invoked exactly once.  Under POST it is the last operation, applied to the
\* residual sum, and the transform receives the sub-block's input as it came.
\* Under PRE and PRE_WITH_NORMFORMER it is the first operation, applied to the
\* sub-block's input, the transform receives its output, and the residual add
\* is the last operation.  The residual branch always starts from the
\* un-normalized input of the sub-block (in the feed-forward sub-block it
\* passes through the residual scale when there is one).
C3_Block(e) ==
    LET n == At(e.log, NormOf(e.blk))
        t == At(e.log, TransformOf(e.blk))
        a == At(e.log, "add")
        m == At(e.log, "mul")
        last == Len(e.log)
    IN /\ Cardinality(n) = 1 /\ Cardinality(t) = 1 /\ Cardinality(a) = 1
       /\ e.out = e.log[last].out
       /\ IF layer.norm_order = POST
          THEN /\ The(n) = last /\ The(a) = last - 1
               /\ e.log[last].args = <<e.log[last - 1].out>>
               /\ The(t) = 1
               /\ e.log[1].args[1] = e.in
          ELSE /\ The(n) = 1
               /\ e.log[1].args = <<e.in>>
               /\ The(t) = 2
               /\ e.log[2].args[1] = e.log[1].out
               /\ The(a) = last
       /\ IF m = {}
          THEN e.log[The(a)].args[2] = e.in
          ELSE /\ e.log[The(m)].args = <<e.in>>
               /\ e.log[The(a)].args[2] = e.log[The(m)].out

C3_NormPlacement ==
    \A s \in Sessions : \A k \in Ran(s) : C3_Block(trace[s][k])

C3_Witness ==
    /\ pc[1] = "returned"
    /\ layer.norm_order = PRE_WITH_NORMFORMER
    /\ Cardinality(Ran(1)) = 3

\* C4: the residual scale is used only in the feed-forward sub-block, and
\* there exactly when the layer has one: it multiplies the sub-block's input
\* after the dropout and right before the residual add, which adds the product.
\* The attention sub-blocks add their input unscaled.  With the scale all
\* zeros the feed-forward residual add returns the network branch alone, while
\* the attention residual adds still change their branch.
C4_Block(e) ==
    LET a == The(At(e.log, "add"))
        m == At(e.log, "mul")
        d == At(e.log, "dropout")
    IN IF e.blk = "ffn" /\ layer.residual_scale # "None"
       THEN /\ Cardinality(m) = 1
            /\ The(m) = a - 1
            /\ \A i \in d \cup At(e.log, layer.ffn.name) : i < The(m)
            /\ e.log[The(m)].args = <<e.in>>
            /\ e.log[The(m)].out = mul(layer.residual_scale, e.in)
            /\ e.log[a].args[2] = e.log[The(m)].out
            /\ layer.residual_scale = "zeros" => e.log[a].out = e.log[a].args[1]
       ELSE /\ m = {}
            /\ e.log[a].args[2] = e.in
            /\ e.log[a].out # e.log[a].args[1]

C4_ResidualScaleScope ==
    \A s \in Sessions : \A k \in Ran(s) : C4_Block(trace[s][k])

C4_Witness ==
    /\ pc[1] = "returned"
    /\ layer.residual_scale = "zeros"
    /\ layer.enc_dec_attn # NoModule

\* C5: whatever forward returns has exactly the shape of x: for unbatched and
\* batched x, every norm order, with and without residual scale, without
\* encoder output and with encoder output of another length.
C5_ShapePreserved ==
    \A s \in Sessions :
        /\ pc[s] = "returned" => ret[s].shape = call[s].x.shape
        /\ \A k \in 1..Len(trace[s]) : trace[s][k].out.shape = call[s].x.shape

C5_Witness ==
    /\ pc[1] = "returned"
    /\ Len(call[1].x.shape) = 3
    /\ ~IsNone(call[1].enc_out)
    /\ call[1].enc_out.shape[2] # call[1].x.shape[2]
    /\ layer.residual_scale # "None"

\* C6: the constructor raises ValueError, and leaves no layer, exactly when the
\* dimensions of the self-attention module, the cross-attention module (if
\* given) and the feed-forward network are not all equal; a constructed layer
\* has the dimension of each of its sub-modules.
DimsAgree(a) ==
    /\ a.enc_dec_attn # NoModule => a.enc_dec_attn.model_dim = a.self_attn.model_dim
    /\ a.ffn.model_dim = a.self_attn.model_dim

C6_DimensionCheck ==
    layer.built # "no" =>
        /\ layer.built = "ValueError" <=> ~DimsAgree(ctor_args)
        /\ layer.built = "ValueError" => layer = NoLayer("ValueError")
        /\ layer.built = "yes" =>
               /\ layer.self_attn.model_dim = layer.model_dim
               /\ layer.ffn.model_dim = layer.model_dim
               /\ layer.enc_dec_attn # NoModule =>
                      layer.enc_dec_attn.model_dim = layer.model_dim

C6_Witness ==
    /\ layer.built = "ValueError"
    /\ ctor_args.enc_dec_attn # NoModule
    /\ ctor_args.enc_dec_attn.model_dim = ctor_args.self_attn.model_dim
    /\ ctor_args.ffn.model_dim # ctor_args.self_attn.model_dim

\* C10: a layer has the extra normalization module exactly when it was built
\* with PRE_WITH_NORMFORMER.  forward invokes it once, in the self-attention
\* sub-block, on the output of the attention module, before the dropout and
\* the residual add; no other sub-block and no other norm order invokes it or
\* any normalization beside the sub-block's own.
C10_Block(e) ==
    LET x == At(e.log, "self_attn_norm")
    IN /\ \A i \in 1..Len(e.log) :
              e.log[i].op \in NormNames => e.log[i].op \in {NormOf(e.blk), "self_attn_norm"}
       /\ IF e.blk = "self_attn" /\ layer.norm_order = PRE_WITH_NORMFORMER
          THEN /\ Cardinality(x) = 1
               /\ The(x) = The(At(e.log, layer.self_attn.name)) + 1
               /\ e.log[The(x)].args = <<e.log[The(x) - 1].out>>
               /\ \A i \in At(e.log, "dropout") \cup At(e.log, "add") : The(x) < i
          ELSE x = {}

C10_Normformer ==
    /\ layer.built = "yes" =>
           (layer.self_attn_norm # "None" <=> layer.norm_order = PRE_WITH_NORMFORMER)
    /\ \A s \in Sessions : \A k \in Ran(s) : C10_Block(trace[s][k])

C10_Witness ==
    /\ pc[1] = "returned"
    /\ layer.norm_order = PRE_WITH_NORMFORMER
    /\ layer.dropout_p > 0
    /\ layer.enc_dec_attn # NoModule

\* the calls of session s so far are an incremental decoding: one position per
\* call, in order, all with the session's state bag and no encoder output
IncrementalRun(s) ==
    /\ hist[s] # <<>>
    /\ \A i \in 1..Len(hist[s]) :
           /\ Len(hist[s][i].x.pos) = 1
           /\ hist[s][i].state_bag
           /\ IsNone(hist[s][i].enc_out)

\* one forward call over the whole sequence session s has decoded so far, with
\* the causal self-attention mask and no state bag
FullPass(s, rng) ==
    LET shape == hist[s][1].x.shape
        batch == IF Len(shape) = 3 THEN shape[1] ELSE 0
    IN forward(layer, InputChunk(s, 1, Len(hist[s]), batch, layer.model_dim),
               {}, "causal", NoTensor, {}, NoBag, rng)

DropoutActive == layer.dropout_p > 0 /\ layer.training

\* C2, as stated: on a decoder-only layer, the outputs of an incremental run
\* equal, position by position, those of any one forward call over the whole
\* sequence.
C2_AsStated ==
    \A s \in Sessions :
        layer.enc_dec_attn = NoModule /\ IncrementalRun(s) /\ pc[s] = "returned" =>
            \A rng \in Seeds : FullPass(s, rng).x.pos = outs[s]

\* C2, amended: the same with dropout inactive (dropout_p = 0, or the layer in
\* evaluation mode); the bag then holds one cached position per call and its
\* step is the number of calls.
C2_IncrementalEqualsFull ==
    \A s \in Sessions :
        /\ layer.enc_dec_attn = NoModule /\ IncrementalRun(s) /\ pc[s] = "returned"
        /\ ~DropoutActive
        => /\ \A rng \in Seeds : FullPass(s, rng).x.pos = outs[s]
           /\ bag[s].step = Len(hist[s])
           /\ Len(bag[s].cache["self_attn"]) = Len(hist[s])

C2_Witness ==
    /\ layer.enc_dec_attn = NoModule /\ IncrementalRun(1) /\ pc[1] = "returned"
    /\ ~DropoutActive
    /\ Len(hist[1]) = MaxLen
    /\ layer.norm_order = PRE_WITH_NORMFORMER

\* the calls h of one session run alone, one after the other, from bag b
RECURSIVE Alone(_, _, _)
Alone(h, b, o) ==
    IF h = <<>> THEN [bag |-> b, outs |-> o]
    ELSE LET c == h[1]
             r == forward(layer, c.x, c.padding_mask, c.self_attn_mask, c.enc_out,
                          c.enc_padding_mask, IF c.state_bag THEN b ELSE NoBag, c.rng)
         IN Alone(Tail(h), IF c.state_bag THEN r.bag ELSE b,
                  IF r.err = "None" THEN o \o r.x.pos ELSE o)

\* C7: no step of forward writes a field of the layer; a session's bag changes
\* only in an attention step of a call of that session that passed the bag; and
\* between its calls, whatever the other session did meanwhile, a session's
\* outputs and bag are those of its calls run alone.
C7_SessionIsolation ==
    /\ [][(pc' # pc) => (layer' = layer)]_vars
    /\ [][\A s \in Sessions :
              bag'[s] # bag[s] =>
                  /\ pc[s] \in {"self_attn", "enc_dec_attn"}
                  /\ pc'[s] # pc[s]
                  /\ call[s].state_bag]_vars
    /\ [](\A s \in Sessions :
              pc[s] \in {"idle", "returned", "raised"} =>
                  /\ outs[s] = Alone(hist[s], EmptyBag, <<>>).outs
                  /\ bag[s] = Alone(hist[s], EmptyBag, <<>>).bag)

C7_Witness ==
    /\ pc[1] = "enc_dec_attn" /\ pc[2] = "ffn"
    /\ Len(hist[1]) = 2 /\ Len(hist[2]) = 2
    /\ bag[1] # bag[2]
    /\ layer.enc_dec_attn # NoModule

\* key is <side>.layers.<N>.<comps>.<more>
Layered(key, side, comps) ==
    /\ Len(key) > 3 + Len(comps)
    /\ key[1] = side /\ key[2] = "layers" /\ key[3] \in IndexStrings
    /\ SubSeq(key, 4, 3 + Len(comps)) = comps

\* key with the n components after <side>.layers.<N> replaced by new
Renamed(key, n, new) == SubSeq(key, 1, 3) \o new \o SubSeq(key, 4 + n, Len(key))

Prefixed(key, head) == Len(key) > Len(head) /\ SubSeq(key, 1, Len(head)) = head

\* the destination name documented for a fairseq parameter name
Documented(key) ==
    IF Layered(key, "decoder", <<"self_attn", "out_proj">>)
        \/ Layered(key, "encoder", <<"self_attn", "out_proj">>)
    THEN Renamed(key, 2, <<"self_attn", "output_proj">>)
    ELSE IF Layered(key, "decoder", <<"encoder_attn", "out_proj">>)
    THEN Renamed(key, 2, <<"encoder_decoder_attn", "output_proj">>)
    ELSE IF Layered(key, "decoder", <<"encoder_attn">>)
    THEN Renamed(key, 1, <<"encoder_decoder_attn">>)
    ELSE IF Layered(key, "decoder", <<"encoder_attn_layer_norm">>)
    THEN Renamed(key, 1, <<"encoder_decoder_attn_layer_norm">>)
    ELSE IF Layered(key, "encoder", <<"fc1">>) \/ Layered(key, "decoder", <<"fc1">>)
    THEN Renamed(key, 1, <<"ffn", "inner_proj">>)
    ELSE IF Layered(key, "encoder", <<"fc2">>) \/ Layered(key, "decoder", <<"fc2">>)
    THEN Renamed(key, 1, <<"ffn", "output_proj">>)
    ELSE IF Layered(key, "encoder", <<"final_layer_norm">>)
            \/ Layered(key, "decoder", <<"final_layer_norm">>)
    THEN Renamed(key, 1, <<"ffn_layer_norm">>)
    ELSE IF Prefixed(key, <<"encoder", "embed_tokens">>)
    THEN <<"encoder_frontend", "embed">> \o SubSeq(key, 3, Len(key))
    ELSE IF Prefixed(key, <<"decoder", "embed_tokens">>)
    THEN <<"decoder_frontend", "embed">> \o SubSeq(key, 3, Len(key))
    ELSE IF Prefixed(key, <<"decoder", "output_projection">>)
    THEN <<"final_proj">> \o SubSeq(key, 3, Len(key))
    ELSE key

Keys(d) == {d[i].key : i \in 1..Len(d)}

\* C8: after the key map was applied, the state dict holds exactly the
\* documented destination name of every parameter of the checkpoint, for every
\* layer index: encoder_attn.out_proj becomes encoder_decoder_attn.output_proj,
\* any other encoder_attn parameter encoder_decoder_attn, and a name no pattern
\* matches stays; every parameter keeps its tensor (of two parameters renamed
\* to one name, one does).
C8_KeyMap ==
    lpc = "renamed" =>
        /\ Keys(ckpt) = {Documented(loaded[i].key) : i \in 1..Len(loaded)}
        /\ Len(ckpt) = Cardinality(Keys(ckpt))
        /\ \A i \in 1..Len(ckpt) :
               \E j \in 1..Len(loaded) :
                   /\ Documented(loaded[j].key) = ckpt[i].key
                   /\ loaded[j].obj = ckpt[i].obj

C8_Witness ==
    /\ lpc = "renamed"
    /\ <<"decoder", "layers", "12", "encoder_attn", "out_proj", "bias">> \in Keys(loaded)
    /\ <<"decoder", "layers", "12", "encoder_decoder_attn", "output_proj", "bias">>
           \in Keys(ckpt)
    /\ <<"decoder", "layers", "x", "fc1", "weight">> \in Keys(loaded) \cap Keys(ckpt)

OldTokens == <<"BOS", "PAD", "EOS", "UNK">>
NewTokens == <<"PAD", "UNK", "BOS", "EOS">>

\* C9: when _upgrade_checkpoint has returned, rows 0..3 of the embedding matrix
\* are the file's rows 1, 3, 0, 2, which turns the order (BOS, PAD, EOS, UNK)
\* into (PAD, UNK, BOS, EOS); its other rows and all other tensors are as in
\* the file; and encoder_frontend.embed.weight, decoder_frontend.embed.weight
\* and final_proj.weight are this one matrix.
C9_Embeddings ==
    lpc = "done" =>
        LET e == DictGet(ckpt, FINAL_PROJ)
            old == FileRows(e)
        IN /\ heap[e][1] = old[2] /\ heap[e][2] = old[4]
           /\ heap[e][3] = old[1] /\ heap[e][4] = old[3]
           /\ \A k \in 1..4 : \E j \in 1..4 :
                  heap[e][k] = old[j] /\ OldTokens[j] = NewTokens[k]
           /\ \A r \in 5..NumRows : heap[e][r] = old[r]
           /\ \A id \in DOMAIN heap : id # e => heap[id] = FileRows(id)
           /\ HasKey(ckpt, ENC_EMBED) /\ DictGet(ckpt, ENC_EMBED) = e
           /\ HasKey(ckpt, DEC_EMBED) /\ DictGet(ckpt, DEC_EMBED) = e

C9_Witness ==
    /\ lpc = "done"
    /\ <<"encoder", "embed_tokens", "weight">> \in Keys(loaded)
    /\ Len(loaded) >= 3
    /\ heap[DictGet(ckpt, FINAL_PROJ)][1] = <<DictGet(ckpt, FINAL_PROJ), 1>>

\* the sub-blocks of forward, in the order forward calls them
SubBlocks == <<"self_attn", "enc_dec_attn", "ffn">>

\* where in the current call of session s the module (or operation) op was
\* invoked: the pairs of sub-block and place in the sub-block's record
Invocations(s, op) ==
    UNION {{<<k, i>> : i \in At(trace[s][k].log, op)} : k \in 1..Len(trace[s])}

\* how many sub-blocks of its current call a session at pc has completed
Completed(at) ==
    CASE at \in {"idle", "self_attn"} -> 0
      [] at \in {"enc_dec_attn", "raised"} -> 1
      [] at = "ffn" -> 2
      [] at = "returned" -> 3

\* the steps of forward: a call starts with the self-attention sub-block, which
\* is followed by the cross-attention sub-block, which raises or is followed by
\* the feed-forward sub-block, after which forward returns
ForwardSteps ==
    ({"idle", "returned", "raised"} \X {"self_attn"})
        \cup {<<"self_attn", "enc_dec_attn">>, <<"enc_dec_attn", "ffn">>,
              <<"enc_dec_attn", "raised">>, <<"ffn", "returned">>}

C11_Call(s) ==
    LET t == trace[s]
        n == Len(t)
        c == call[s]
    IN /\ n = Completed(pc[s])
       /\ \A k \in 1..n :
              /\ t[k].blk = SubBlocks[k]
              /\ t[k].in = IF k = 1 THEN c.x ELSE t[k - 1].out
              /\ t[k].log # <<>> =>
                     /\ t[k].log[1].args[1] = t[k].in
                     /\ t[k].log[Len(t[k].log)].out = t[k].out
       /\ pc[s] \in {"self_attn", "enc_dec_attn", "ffn"} =>
              cur[s] = IF n = 0 THEN c.x ELSE t[n].out
       /\ \A k \in 1..3 : \A p \in Invocations(s, SubBlocks[k]) : p[1] = k
       /\ Cardinality(Invocations(s, "self_attn")) = IF n >= 1 THEN 1 ELSE 0
       /\ Cardinality(Invocations(s, "enc_dec_attn"))
              = IF n >= 2 /\ layer.enc_dec_attn # NoModule THEN 1 ELSE 0
       /\ Cardinality(Invocations(s, "ffn")) = IF n = 3 THEN 1 ELSE 0
       /\ pc[s] = "returned" =>
              /\ ret[s] = t[3].out
              /\ ret[s] = _forward_ffn(layer, t[2].out, c.rng).x
       /\ layer.enc_dec_attn = NoModule /\ n >= 2 =>
              /\ t[2].log = <<>>
              /\ t[2].out = t[1].out
       /\ layer.enc_dec_attn = NoModule /\ n = 3 =>
              /\ t[3].in = t[1].out
              /\ ret[s] = _forward_ffn(layer, t[1].out, c.rng).x

\* C11: a forward call runs its sub-blocks in the order self-attention,
\* cross-attention, feed-forward and no other; at every point of the call the
\* sub-blocks run so far are the first ones of that order, each run once on the
\* output of the one before it (the first on the caller's x), and each module
\* has been invoked once, inside its own sub-block; forward returns the output
\* of the feed-forward sub-block.  On a decoder-only layer the cross-attention
\* step invokes nothing, leaves x and the state bag as they were, and the
\* feed-forward sub-block runs on the output of the self-attention sub-block.
C11_SubBlockOrder ==
    /\ [](\A s \in Sessions : C11_Call(s))
    /\ [][\A s \in Sessions :
              pc'[s] # pc[s] =>
                  /\ <<pc[s], pc'[s]>> \in ForwardSteps
                  /\ (pc[s] = "enc_dec_attn" /\ pc'[s] = "ffn"
                          /\ layer.enc_dec_attn = NoModule)
                     => (cur'[s] = cur[s] /\ bag'[s] = bag[s])]_vars

C11_Witness ==
    /\ pc[1] = "returned"
    /\ layer.enc_dec_attn = NoModule
    /\ IsNone(call[1].enc_out)
    /\ call[1].state_bag
    /\ Len(hist[1]) = 2
    /\ Len(trace[1]) = 3
    /\ trace[1][3].in = trace[1][1].out

C12_Call(s) ==
    LET t == trace[s]
        c == call[s]
        a == At(t[1].log, layer.self_attn.name)
    IN /\ Mismatch(s)
       /\ Len(t) = 1
       /\ t[1].blk = "self_attn"
       /\ t[1].in = c.x
       /\ Cardinality(a) = 1
       /\ t[1].log[The(a)].bag = c.state_bag
       /\ Invocations(s, "self_attn") = {<<1, The(a)>>}
       /\ Invocations(s, "enc_dec_attn") = {}
       /\ Invocations(s, "ffn") = {}
       /\ IF c.state_bag
          THEN /\ bag[s].step = Fed(hist[s])
               /\ Len(bag[s].cache["self_attn"]) = Fed(hist[s])
               /\ bag[s].cache["enc_dec_attn"] = <<>>
          ELSE bag[s] = EmptyBag

\* C12: forward raises ValueError only from the cross-attention step, after
\* the self-attention sub-block has run to its end.  When a call has raised,
\* the self-attention module has been invoked exactly once, with the state bag
\* exactly when the caller passed one, and the cross-attention module and the
\* feed-forward network have not been invoked.  The self-attention step of
\* such a call has extended the caller's bag by the call's positions and
\* advanced its step, and the raising step itself leaves the bag as it is.
C12_CheckAfterSelfAttn ==
    /\ [](\A s \in Sessions : pc[s] = "raised" => C12_Call(s))
    /\ [][\A s \in Sessions :
              /\ (pc'[s] = "raised" /\ pc[s] # "raised") =>
                     /\ pc[s] = "enc_dec_attn"
                     /\ bag'[s] = bag[s] /\ trace'[s] = trace[s]
              /\ (pc[s] = "self_attn" /\ pc'[s] # pc[s] /\ Mismatch(s)
                      /\ call[s].state_bag) =>
                     /\ pc'[s] = "enc_dec_attn"
                     /\ bag'[s].step = bag[s].step + Len(call[s].x.pos)]_vars

C12_Witness ==
    /\ pc[1] = "raised"
    /\ layer.enc_dec_attn # NoModule
    /\ IsNone(call[1].enc_out)
    /\ call[1].state_bag
    /\ Len(hist[1]) = 2
    /\ bag[1].step = 2

====
